---- MODULE Spec2Model ----
(***************************************************************************)
(* A model of visual_debug.py: the rectangle geometry helper, the          *)
(* single-frame renderer render_debug (as the ordered log of draw calls it *)
(* issues on the overlay), the batch driver run_batch and the command-line *)
(* entry point main.                                                       *)
(*                                                                         *)
(* Three specifications share the variables below:                         *)
(*   SpecGeom    intersect_rects on bounded integer rectangles             *)
(*   SpecRender  render_debug on bounded documents / diagnostics / layers  *)
(*   SpecCli     main: single-frame mode and run_batch over a directory    *)
(***************************************************************************)
EXTENDS Integers, Sequences, FiniteSets, TLC

VARIABLES
    \* ---- intersect_rects ----
    ra, rb,          \* the two argument rectangles
    res_ab, res_ba,  \* intersect_rects(ra, rb), intersect_rects(rb, ra) once called
    \* ---- render_debug ----
    dom,             \* parsed dom JSON
    diag,            \* parsed diag JSON, or None
    layers,          \* layer names of the latest call
    ops,             \* draw calls of the latest call, in issue order, then the save
    ran,             \* render_debug has been called at least once
    first_ann,       \* defect and summary draw calls of the first call
    \* ---- main / run_batch ----
    args,            \* parsed command-line arguments
    is_dir,          \* whether the --batch path is a directory
    fs,              \* names of the files in the directory worked on
    pc,              \* position of the process: start, loop, done
    dom_files,       \* sorted glob result still to be iterated
    log,             \* iteration numbers logged as skipped
    written,         \* the saves done: render path read, path saved to
    exit_status      \* process exit status once finished

geomVars   == <<ra, rb, res_ab, res_ba>>
renderVars == <<dom, diag, layers, ops, ran, first_ann>>
cliVars    == <<args, is_dir, fs, pc, dom_files, log, written, exit_status>>
vars       == <<ra, rb, res_ab, res_ba,
                dom, diag, layers, ops, ran, first_ann,
                args, is_dir, fs, pc, dom_files, log, written, exit_status>>

\* Python's None
None == [none |-> TRUE]

(***************************************************************************)
(* Bounds of the model                                                     *)
(***************************************************************************)
MaxCoord   == 2    \* rectangle x, y, w, h in -1..MaxCoord
MaxElems   == 2    \* elements of a document
MaxDefects == 2    \* defects of a diagnostics report
MaxIndex   == 1    \* a rollout directory holds iterations 0..MaxIndex
MaxChunks  == 2    \* the stem of a render file name is made of 1..MaxChunks pieces

Max(m, n) == IF m >= n THEN m ELSE n
Min(m, n) == IF m <= n THEN m ELSE n

(***************************************************************************)
(* Geometry helper                                                         *)
(***************************************************************************)
Rect(x, y, w, h) == [x |-> x, y |-> y, w |-> w, h |-> h]

\* a mutant: the left edge is taken from the first argument only
intersect_rects_left_of_a(a, b) ==
    LET x      == a.x
        y      == Max(a.y, b.y)
        right  == Min(a.x + a.w, b.x + b.w)
        bottom == Min(a.y + a.h, b.y + b.h)
        w      == right - x
        h      == bottom - y
    IN  IF w <= 0 \/ h <= 0 THEN None ELSE Rect(x, y, w, h)

\* a mutant: a zero-width or zero-height overlap counts as a rectangle
intersect_rects_strict(a, b) ==
    LET x      == Max(a.x, b.x)
        y      == Max(a.y, b.y)
        right  == Min(a.x + a.w, b.x + b.w)
        bottom == Min(a.y + a.h, b.y + b.h)
        w      == right - x
        h      == bottom - y
    IN  IF w < 0 \/ h < 0 THEN None ELSE Rect(x, y, w, h)

intersect_rects(a, b) ==
    LET x      == Max(a.x, b.x)
        y      == Max(a.y, b.y)
        right  == Min(a.x + a.w, b.x + b.w)
        bottom == Min(a.y + a.h, b.y + b.h)
        w      == right - x
        h      == bottom - y
    IN  IF w <= 0 \/ h <= 0 THEN None ELSE Rect(x, y, w, h)

\* the rectangles the geometry specification draws its arguments from
GeomRects ==
    { Rect(x, y, w, h) : x \in -1..MaxCoord, y \in -1..MaxCoord,
                         w \in -1..MaxCoord, h \in -1..MaxCoord }

Pending == [pending |-> TRUE]

\* idle values of the variables a specification does not use
RenderIdle ==
    /\ dom = [slide |-> [w |-> 0, h |-> 0], elements |-> <<>>]
    /\ diag = None
    /\ layers = {}
    /\ ops = <<>>
    /\ ran = FALSE
    /\ first_ann = <<>>

CliIdle ==
    /\ args = [batch |-> "", dom_json |-> "", render_png |-> "", diag |-> "",
                output |-> "<None>"]
    /\ is_dir = FALSE
    /\ fs = {}
    /\ pc = "idle"
    /\ dom_files = <<>>
    /\ log = {}
    /\ written = {}
    /\ exit_status = -1

GeomIdle ==
    /\ ra = Rect(0, 0, 0, 0)
    /\ rb = Rect(0, 0, 0, 0)
    /\ res_ab = Pending
    /\ res_ba = Pending

InitGeom ==
    /\ ra \in GeomRects
    /\ rb \in GeomRects
    /\ res_ab = Pending
    /\ res_ba = Pending
    /\ RenderIdle
    /\ CliIdle

\* the call intersect_rects(ra, rb)
IntersectAB ==
    /\ res_ab = Pending
    /\ res_ab' = intersect_rects(ra, rb)
    /\ UNCHANGED <<ra, rb, res_ba>>
    /\ UNCHANGED renderVars
    /\ UNCHANGED cliVars

\* the call intersect_rects(rb, ra)
IntersectBA ==
    /\ res_ba = Pending
    /\ res_ba' = intersect_rects(rb, ra)
    /\ UNCHANGED <<ra, rb, res_ab>>
    /\ UNCHANGED renderVars
    /\ UNCHANGED cliVars

NextGeom == IntersectAB \/ IntersectBA

SpecGeom == InitGeom /\ [][NextGeom]_vars

NoArea(r) == r.w <= 0 \/ r.h <= 0

\* C3: intersect_rects is commutative: once both intersect_rects(ra, rb) and
\* intersect_rects(rb, ra) have been computed the two results are equal, be
\* they a rectangle or None.
C3_Commutative ==
    (res_ab # Pending /\ res_ba # Pending) => res_ab = res_ba

\* both orders computed, on two different rectangles that do overlap
C3_Witness ==
    /\ res_ab # Pending /\ res_ba # Pending
    /\ ra # rb
    /\ res_ab # None

\* both orders computed, on two different rectangles that do not overlap
C3_WitnessNone ==
    /\ res_ab # Pending /\ res_ba # Pending
    /\ ra # rb /\ ~NoArea(ra) /\ ~NoArea(rb)
    /\ res_ab = None

\* C4: if either argument has no area (w <= 0 or h <= 0) the result of
\* intersect_rects is None, wherever the other rectangle lies.
C4_NoAreaNoIntersection ==
    /\ (res_ab # Pending /\ (NoArea(ra) \/ NoArea(rb))) => res_ab = None
    /\ (res_ba # Pending /\ (NoArea(ra) \/ NoArea(rb))) => res_ba = None

\* a zero-width rectangle lying strictly inside a rectangle with area
C4_Witness ==
    /\ res_ab # Pending
    /\ rb.w = 0 /\ rb.h > 0 /\ ~NoArea(ra)
    /\ ra.x < rb.x /\ rb.x < ra.x + ra.w
    /\ ra.y <= rb.y /\ rb.y + rb.h <= ra.y + ra.h
    /\ res_ab = None

(***************************************************************************)
(* Data of render_debug.  A JSON object with optional keys is a record     *)
(* with a field "keys" naming the keys present; d.get(k) is Get(d, k).     *)
(***************************************************************************)
AllLayers == {"bbox", "safeBox", "contentBox"}

\* None where a string id is expected (the result of d.get("eid") on a
\* defect without that key)
NoId == "<None>"

BBOX_COLOR       == "BBOX_COLOR"
SAFEBOX_COLOR    == "SAFEBOX_COLOR"
CONTENTBOX_COLOR == "CONTENTBOX_COLOR"
OVERFLOW_COLOR   == "OVERFLOW_COLOR"
OVERLAP_COLOR    == "OVERLAP_COLOR"
OOB_COLOR        == "OOB_COLOR"
OVERFLOW_TINT    == "(239, 68, 68, 30)"
SUMMARY_BG       == "SUMMARY_BG"
SUMMARY_FG       == "SUMMARY_FG"

line_h == 16
pad    == 8

\* d.get(k) for the id-valued keys of a defect
Get(d, k) == IF k \in d.keys THEN d[k] ELSE NoId

\* truth value of an id: None and the empty string are falsy
TruthyId(id) == id # NoId /\ id # ""

\* truth value of diag: None and the empty object {} are falsy
Truthy(dg) == dg # None /\ dg.keys # {}

\* diag.get("defects", [])
Defects(dg) == IF "defects" \in dg.keys THEN dg.defects ELSE <<>>

\* one draw call on the overlay (or the final save).  part and idx say which
\* statement of render_debug issued it and in which loop iteration.
Op(call, part, idx, geom, color, width, text) ==
    [call |-> call, part |-> part, idx |-> idx, geom |-> geom,
     color |-> color, width |-> width, text |-> text]

draw_solid_rect(part, idx, r, outline, width) ==
    Op("rectangle_outline", part, idx, <<r.x, r.y, r.x + r.w, r.y + r.h>>,
       outline, width, "")

draw_dashed_rect(part, idx, r, fill, width) ==
    Op("dashed_rect", part, idx, <<r.x, r.y, r.x + r.w, r.y + r.h>>,
       fill, width, "")

draw_filled_rect(part, idx, r, fill) ==
    Op("rectangle_fill", part, idx, <<r.x, r.y, r.x + r.w, r.y + r.h>>,
       fill, 0, "")

draw_text(part, idx, x, y, text, fill) ==
    Op("text", part, idx, <<x, y>>, fill, 0, text)

draw_line(part, idx, x1, y1, x2, y2, fill, width) ==
    Op("line", part, idx, <<x1, y1, x2, y2>>, fill, width, "")

\* a mutant: only the eid key of a content_overflow defect is compared
has_overflow_eid_only(dg, eid) ==
    /\ Truthy(dg)
    /\ \E j \in 1..Len(Defects(dg)) :
          LET d == Defects(dg)[j]
          IN  d.type = "content_overflow" /\ Get(d, "eid") = eid

has_overflow(dg, eid) ==
    /\ Truthy(dg)
    /\ \E j \in 1..Len(Defects(dg)) :
          LET d == Defects(dg)[j]
          IN  /\ d.type = "content_overflow"
              /\ (Get(d, "eid") = eid \/ Get(d, "owner_eid") = eid)

\* a mutant: the eid label is drawn whatever the layer selection
ElementOps_label_always(el, i, dg, L) ==
    LET ov == has_overflow(dg, el.eid)
    IN  (IF "bbox" \in L
           THEN <<draw_solid_rect("bbox", i, el.bbox, BBOX_COLOR, 1)>>
           ELSE <<>>)
        \o (IF "safeBox" \in L
              THEN <<draw_dashed_rect("safeBox", i, el.safeBox, SAFEBOX_COLOR, 1)>>
              ELSE <<>>)
        \o (IF "contentBox" \in L /\ el.contentBox # None
              THEN <<draw_dashed_rect("contentBox", i, el.contentBox,
                                      IF ov THEN OVERFLOW_COLOR ELSE CONTENTBOX_COLOR,
                                      IF ov THEN 2 ELSE 1)>>
              ELSE <<>>)
        \o <<draw_text("label", i, el.bbox.x + 2, el.bbox.y - 12, el.eid, BBOX_COLOR)>>

\* the body of "for el in dom['elements']" for the i-th element
ElementOps(el, i, dg, L) ==
    LET ov == has_overflow(dg, el.eid)
    IN  (IF "bbox" \in L
           THEN <<draw_solid_rect("bbox", i, el.bbox, BBOX_COLOR, 1)>>
           ELSE <<>>)
        \o (IF "safeBox" \in L
              THEN <<draw_dashed_rect("safeBox", i, el.safeBox, SAFEBOX_COLOR, 1)>>
              ELSE <<>>)
        \o (IF "contentBox" \in L /\ el.contentBox # None
              THEN <<draw_dashed_rect("contentBox", i, el.contentBox,
                                      IF ov THEN OVERFLOW_COLOR ELSE CONTENTBOX_COLOR,
                                      IF ov THEN 2 ELSE 1)>>
              ELSE <<>>)
        \o (IF "bbox" \in L
              THEN <<draw_text("label", i, el.bbox.x + 2, el.bbox.y - 12, el.eid, BBOX_COLOR)>>
              ELSE <<>>)

\* the loop over dom["elements"], from the i-th element on
RECURSIVE AllElementOps(_, _, _, _)
AllElementOps(dm, dg, L, i) ==
    IF i > Len(dm.elements) THEN <<>>
    ELSE ElementOps(dm.elements[i], i, dg, L) \o AllElementOps(dm, dg, L, i + 1)

\* elements_by_eid.get(id): the last element with that eid, or None
elements_by_eid_get(dm, id) ==
    LET hits == { i \in 1..Len(dm.elements) : dm.elements[i].eid = id }
    IN  IF hits = {} THEN None
        ELSE dm.elements[CHOOSE i \in hits : \A k \in hits : k <= i]

\* the id a content_overflow defect is resolved by:
\* defect.get("eid") or defect.get("owner_eid")
ChosenId(d) ==
    IF TruthyId(Get(d, "eid")) THEN Get(d, "eid") ELSE Get(d, "owner_eid")

OverlapOps(dm, d, j) ==
    LET owner == elements_by_eid_get(dm, Get(d, "owner_eid"))
        other == elements_by_eid_get(dm, Get(d, "other_eid"))
    IN  IF owner # None /\ other # None
          THEN LET inter == intersect_rects(owner.safeBox, other.safeBox)
               IN  IF inter # None
                     THEN <<draw_filled_rect("defect", j, inter, OVERLAP_COLOR)>>
                     ELSE <<>>
          ELSE <<>>

\* a mutant: an eid that does not resolve falls back to owner_eid
ContentOverflowOps_fallback(dm, d, j) ==
    LET el == IF elements_by_eid_get(dm, ChosenId(d)) # None
                THEN elements_by_eid_get(dm, ChosenId(d))
                ELSE elements_by_eid_get(dm, Get(d, "owner_eid"))
    IN  IF el # None
          THEN <<draw_filled_rect("defect", j, el.bbox, OVERFLOW_TINT)>>
          ELSE <<>>

ContentOverflowOps(dm, d, j) ==
    LET el == elements_by_eid_get(dm, ChosenId(d))
    IN  IF el # None
          THEN <<draw_filled_rect("defect", j, el.bbox, OVERFLOW_TINT)>>
          ELSE <<>>

OutOfBoundsOps(dm, d, j) ==
    LET edge == d.edge
        sw   == dm.slide.w
        sh   == dm.slide.h
    IN  IF edge = "left" THEN <<draw_line("defect", j, 0, 0, 0, sh, OOB_COLOR, 3)>>
        ELSE IF edge = "right"
          THEN <<draw_line("defect", j, sw - 1, 0, sw - 1, sh, OOB_COLOR, 3)>>
        ELSE IF edge = "top" THEN <<draw_line("defect", j, 0, 0, sw, 0, OOB_COLOR, 3)>>
        ELSE IF edge = "bottom"
          THEN <<draw_line("defect", j, 0, sh - 1, sw, sh - 1, OOB_COLOR, 3)>>
        ELSE <<>>

\* the body of "for defect in diag.get('defects', [])" for the j-th defect
DefectOps(dm, d, j) ==
    (IF d.type = "overlap" THEN OverlapOps(dm, d, j) ELSE <<>>)
    \o (IF d.type = "content_overflow" THEN ContentOverflowOps(dm, d, j) ELSE <<>>)
    \o (IF d.type = "out_of_bounds" THEN OutOfBoundsOps(dm, d, j) ELSE <<>>)

\* the loop over the defects, from the j-th defect on
RECURSIVE AllDefectOps(_, _, _)
AllDefectOps(dm, dg, j) ==
    IF j > Len(Defects(dg)) THEN <<>>
    ELSE DefectOps(dm, Defects(dg)[j], j) \o AllDefectOps(dm, dg, j + 1)

\* diag.get("summary", {})
EmptySummary ==
    [keys |-> {}, defect_count |-> 0, total_severity |-> 0, warning_count |-> 0,
     conflict_chain |-> <<>>, chain_feasible |-> ""]

Summary(dg) == IF "summary" \in dg.keys THEN dg.summary ELSE EmptySummary

\* f"{summary.get(k, '?')}" for the numeric keys
SummaryNum(sm, k) == IF k \in sm.keys THEN ToString(sm[k]) ELSE "?"

\* ' (arrow) '.join(chain); the three characters " > " stand for the separator,
\* which is three characters long in the source too
RECURSIVE Join(_)
Join(chain) ==
    IF Len(chain) = 0 THEN ""
    ELSE IF Len(chain) = 1 THEN chain[1]
    ELSE chain[1] \o " > " \o Join(Tail(chain))

\* the text lines of the summary panel
SummaryLines(dg) ==
    LET sm    == Summary(dg)
        chain == IF "conflict_chain" \in sm.keys THEN sm.conflict_chain ELSE <<>>
    IN  << "Defects: " \o SummaryNum(sm, "defect_count")
           \o "  Severity: " \o SummaryNum(sm, "total_severity")
           \o "  Warnings: " \o SummaryNum(sm, "warning_count") >>
        \o (IF chain # <<>>
              THEN << "Chain: " \o Join(chain) \o "  (feasible: "
                      \o (IF "chain_feasible" \in sm.keys THEN sm.chain_feasible ELSE "?")
                      \o ")" >>
              ELSE <<>>)

MaxLineLen(lines) ==
    CHOOSE n \in { Len(lines[i]) : i \in 1..Len(lines) } :
        \A i \in 1..Len(lines) : Len(lines[i]) <= n

\* the summary box: background rectangle, then one text call per line
SummaryOps(dg) ==
    LET lines == SummaryLines(dg)
        box_w == MaxLineLen(lines) * 7 + pad * 2
        box_h == Len(lines) * line_h + pad * 2
    IN  <<draw_filled_rect("panel", 0, Rect(4, 4, box_w, box_h), SUMMARY_BG)>>
        \o [i \in 1..Len(lines) |->
              draw_text("panel", i, 4 + pad, 4 + pad + (i - 1) * line_h,
                        lines[i], SUMMARY_FG)]

SaveOp == Op("save", "save", 0, <<>>, "", 0, "")

\* a mutant: the summary box is drawn before the defect annotations
RenderOps_panel_first(dm, dg, L) ==
    AllElementOps(dm, dg, L, 1)
    \o (IF Truthy(dg) THEN SummaryOps(dg) \o AllDefectOps(dm, dg, 1) ELSE <<>>)
    \o <<SaveOp>>

\* the draw calls of one render_debug call, in issue order, then the save
RenderOps(dm, dg, L) ==
    AllElementOps(dm, dg, L, 1)
    \o (IF Truthy(dg) THEN AllDefectOps(dm, dg, 1) \o SummaryOps(dg) ELSE <<>>)
    \o <<SaveOp>>

(***************************************************************************)
(* Inputs of render_debug                                                  *)
(***************************************************************************)
SeqsUpTo(S, n) == UNION { [1..k -> S] : k \in 0..n }

Eid(k) == "t" \o ToString(k)

\* the k-th element of a document.  The safeBoxes of neighbouring "full"
\* elements overlap; a "bare" element has no contentBox and a safeBox
\* without area.
ElementAt(k, v) ==
    LET x0 == 30 * (k - 1)
    IN  [eid        |-> Eid(k),
         bbox       |-> Rect(x0, 20, 50, 20),
         safeBox    |-> IF v = "bare" THEN Rect(x0 + 2, 22, 0, 16)
                                      ELSE Rect(x0 + 2, 22, 46, 16),
         contentBox |-> IF v = "bare" THEN None ELSE Rect(x0 + 4, 24, 40, 10)]

ElemVariants == {"full", "bare"}

Docs ==
    { [slide    |-> [w |-> 100, h |-> 100],
       elements |-> [k \in 1..Len(vs) |-> ElementAt(k, vs[k])]] :
      vs \in SeqsUpTo(ElemVariants, MaxElems) }

Defect(type, keys, eid, owner_eid, other_eid, edge) ==
    [type |-> type, keys |-> keys, eid |-> eid, owner_eid |-> owner_eid,
     other_eid |-> other_eid, edge |-> edge]

\* "zz" is an eid no document has
DefectPool ==
    { Defect("overlap", {"owner_eid", "other_eid"}, "", "t1", "t2", ""),
      Defect("overlap", {"owner_eid", "other_eid"}, "", "t1", "zz", ""),
      Defect("overlap", {"other_eid"}, "", "", "t2", ""),
      Defect("content_overflow", {"eid"}, "t1", "", "", ""),
      Defect("content_overflow", {"owner_eid"}, "", "t2", "", ""),
      Defect("content_overflow", {"eid", "owner_eid"}, "zz", "t1", "", ""),
      Defect("out_of_bounds", {"details"}, "", "", "", "right"),
      Defect("out_of_bounds", {"details"}, "", "", "", "middle") }

FullSummary ==
    [keys |-> {"defect_count", "total_severity", "warning_count",
               "conflict_chain", "chain_feasible"},
     defect_count |-> 1, total_severity |-> 5, warning_count |-> 0,
     conflict_chain |-> <<"t1", "t2">>, chain_feasible |-> "True"]

SummaryPool == {EmptySummary, FullSummary}

\* a diag object; a key that is absent carries a fixed filler value
Diag(keys, sm, ds) == [keys |-> keys, summary |-> sm, defects |-> ds]

Diags ==
    {None, Diag({}, EmptySummary, <<>>)}
    \cup { Diag({"summary"}, sm, <<>>) : sm \in SummaryPool }
    \cup { Diag({"defects"}, EmptySummary, ds) : ds \in SeqsUpTo(DefectPool, MaxDefects) }
    \cup { Diag({"summary", "defects"}, FullSummary, ds) :
             ds \in SeqsUpTo(DefectPool, MaxDefects) }

\* the layers argument: omitted (None), or a list of layer names
LayerParams ==
    {[given |-> FALSE, names |-> {}]}
    \cup { [given |-> TRUE, names |-> S] : S \in SUBSET AllLayers }

\* the draw calls of the diagnostics block (defect annotations, summary box)
Annotations(log_) == SelectSeq(log_, LAMBDA o : o.part \in {"defect", "panel"})

\* the draw calls of the per-element loop
ElementDraws(log_) ==
    SelectSeq(log_, LAMBDA o : o.part \in {"bbox", "safeBox", "contentBox", "label"})

InitRender ==
    /\ dom \in Docs
    /\ diag \in Diags
    /\ layers = {}
    /\ ops = <<>>
    /\ ran = FALSE
    /\ first_ann = <<>>
    /\ GeomIdle
    /\ CliIdle

\* one call render_debug(dom, render_path, diag, layers) on the same inputs
RenderDebug ==
    \E p \in LayerParams :
        LET L == IF p.given THEN p.names ELSE AllLayers
        IN  /\ layers' = L
            /\ ops' = RenderOps(dom, diag, L)
            /\ ran' = TRUE
            /\ first_ann' = IF ran THEN first_ann ELSE Annotations(ops')
            /\ UNCHANGED <<dom, diag>>
            /\ UNCHANGED geomVars
            /\ UNCHANGED cliVars

NextRender == RenderDebug

SpecRender == InitRender /\ [][NextRender]_vars

(***************************************************************************)
(* Properties of render_debug                                              *)
(***************************************************************************)
OpsAt(part, idx) == { p \in 1..Len(ops) : ops[p].part = part /\ ops[p].idx = idx }

OpsOf(part) == { p \in 1..Len(ops) : ops[p].part = part }

\* the diagnostics hold a content_overflow defect whose eid or owner_eid is id
Referenced(dg, id) ==
    /\ dg # None
    /\ "defects" \in dg.keys
    /\ \E j \in 1..Len(dg.defects) :
          /\ dg.defects[j].type = "content_overflow"
          /\ \/ ("eid" \in dg.defects[j].keys /\ dg.defects[j].eid = id)
             \/ ("owner_eid" \in dg.defects[j].keys /\ dg.defects[j].owner_eid = id)

\* C5: for every element E that has a contentBox, with the contentBox layer
\* selected, the contentBox outline of E is drawn once, in the overflow colour
\* with width 2 if and only if the diagnostics hold a content_overflow defect
\* whose eid or owner_eid is E's eid, and in the default content colour with
\* width 1 otherwise (no such defect, or no diagnostics).
C5_OverflowOutline ==
    ran =>
      \A i \in 1..Len(dom.elements) :
        (dom.elements[i].contentBox # None /\ "contentBox" \in layers) =>
          /\ Cardinality(OpsAt("contentBox", i)) = 1
          /\ \A p \in OpsAt("contentBox", i) :
               /\ ops[p].call = "dashed_rect"
               /\ IF Referenced(diag, dom.elements[i].eid)
                    THEN ops[p].color = OVERFLOW_COLOR /\ ops[p].width = 2
                    ELSE ops[p].color = CONTENTBOX_COLOR /\ ops[p].width = 1

\* one element referenced through owner_eid only and drawn in the overflow
\* colour beside one that no defect references, drawn in the default colour
C5_Witness ==
    /\ ran /\ "contentBox" \in layers /\ diag # None
    /\ \E i, k \in 1..Len(dom.elements) :
         /\ dom.elements[i].contentBox # None /\ dom.elements[k].contentBox # None
         /\ Referenced(diag, dom.elements[i].eid)
         /\ \A j \in 1..Len(Defects(diag)) : Get(Defects(diag)[j], "eid") # dom.elements[i].eid
         /\ ~Referenced(diag, dom.elements[k].eid)
         /\ \E p \in OpsAt("contentBox", i) : ops[p].color = OVERFLOW_COLOR
         /\ \E p \in OpsAt("contentBox", k) : ops[p].color = CONTENTBOX_COLOR

PanelBackgrounds == { p \in OpsOf("panel") : ops[p].call = "rectangle_fill" }
PanelTexts       == { p \in OpsOf("panel") : ops[p].call = "text" }

\* C6: whenever a diagnostics report is supplied the summary panel (one
\* background rectangle and one or two text lines) is drawn exactly once; when
\* none is supplied no summary panel and no defect annotation is drawn.
C6_PanelWheneverDiag ==
    ran =>
      /\ diag # None =>
           /\ Cardinality(PanelBackgrounds) = 1
           /\ Cardinality(PanelTexts) \in {1, 2}
      /\ diag = None => Annotations(ops) = <<>>

\* what does hold of the panel: it is drawn exactly once for every report
\* that is neither None nor the empty object, and never otherwise
PanelIffTruthyDiag ==
    ran =>
      /\ Truthy(diag) =>
           /\ Cardinality(PanelBackgrounds) = 1
           /\ Cardinality(PanelTexts) \in {1, 2}
      /\ ~Truthy(diag) => Annotations(ops) = <<>>

Unresolvable(dm, id) == \A i \in 1..Len(dm.elements) : dm.elements[i].eid # id

\* the j-th defect refers to an element the document does not have
Dangling(dm, d) ==
    \/ /\ d.type = "overlap"
       /\ \/ Unresolvable(dm, Get(d, "owner_eid"))
          \/ Unresolvable(dm, Get(d, "other_eid"))
    \/ /\ d.type = "content_overflow"
       /\ Unresolvable(dm, ChosenId(d))

\* the j-th defect is one that has something to draw
Drawable(dm, d) ==
    \/ d.type = "content_overflow" /\ ~Unresolvable(dm, ChosenId(d))
    \/ d.type = "out_of_bounds" /\ d.edge \in {"left", "right", "top", "bottom"}

\* C8: a defect whose referenced eid does not resolve to an element of the
\* document draws nothing and stops nothing: every other defect that has
\* something to draw is drawn, the summary panel is drawn and the call ends
\* with the save.
C8_UnresolvedSkipped ==
    (ran /\ diag # None /\ Defects(diag) # <<>>) =>
      /\ \A j \in 1..Len(Defects(diag)) :
           /\ Dangling(dom, Defects(diag)[j]) => OpsAt("defect", j) = {}
           /\ Drawable(dom, Defects(diag)[j]) => Cardinality(OpsAt("defect", j)) = 1
      /\ Cardinality(PanelBackgrounds) = 1
      /\ ops[Len(ops)].call = "save"

\* a content_overflow defect whose eid is unknown although its owner_eid is
\* an element, followed by a defect that is drawn
C8_Witness ==
    /\ ran /\ diag # None /\ Len(Defects(diag)) >= 2
    /\ Defects(diag)[1].type = "content_overflow"
    /\ Dangling(dom, Defects(diag)[1])
    /\ ~Unresolvable(dom, Get(Defects(diag)[1], "owner_eid"))
    /\ OpsAt("defect", 1) = {}
    /\ OpsAt("defect", 2) # {}
    /\ PanelTexts # {}

Stage(o) ==
    IF o.part \in {"bbox", "safeBox", "contentBox", "label"} THEN 1
    ELSE IF o.part = "defect" THEN 2
    ELSE IF o.part = "panel" THEN 3
    ELSE 4

PartRank(o) ==
    IF o.part = "bbox" THEN 1
    ELSE IF o.part = "safeBox" THEN 2
    ELSE IF o.part = "contentBox" THEN 3
    ELSE IF o.part = "label" THEN 4
    ELSE 0

\* o1 may be issued before o2
InOrder(o1, o2) ==
    \/ Stage(o1) < Stage(o2)
    \/ /\ Stage(o1) = Stage(o2)
       /\ \/ Stage(o1) = 3
          \/ o1.idx < o2.idx
          \/ o1.idx = o2.idx /\ PartRank(o1) < PartRank(o2)

\* C9: the draw calls are ordered: elements in document order and, within an
\* element, bbox outline, safeBox outline, contentBox outline, eid label; then
\* the defect annotations in defect-list order; then the summary panel; and
\* the save comes last, once.
C9_DrawOrder ==
    ran =>
      /\ \A p, q \in 1..Len(ops) : p < q => InOrder(ops[p], ops[q])
      /\ ops[Len(ops)].call = "save"
      /\ Cardinality(OpsOf("save")) = 1

\* every kind of draw call present: all four draws of two elements, two
\* defect annotations and the panel
C9_Witness ==
    /\ ran /\ layers = AllLayers
    /\ Len(dom.elements) >= 2
    /\ \A i \in 1..2 : \A part \in {"bbox", "safeBox", "contentBox", "label"} :
         OpsAt(part, i) # {}
    /\ OpsAt("defect", 1) # {} /\ OpsAt("defect", 2) # {}
    /\ Cardinality(PanelTexts) = 2

(***************************************************************************)
(* File names.  Names are strings; the helpers below do what str.replace,  *)
(* Path.glob("dom_*.json"), re.search(r"dom_(\d+)\.json$") and sorted() do *)
(* on them.                                                                *)
(***************************************************************************)
StartsWith(s, pre) == Len(s) >= Len(pre) /\ SubSeq(s, 1, Len(pre)) = pre

EndsWith(s, suf) == Len(s) >= Len(suf) /\ SubSeq(s, Len(s) - Len(suf) + 1, Len(s)) = suf

IsDigits(s) ==
    \A i \in 1..Len(s) :
        SubSeq(s, i, i) \in {"0", "1", "2", "3", "4", "5", "6", "7", "8", "9"}

\* s.replace(old, new): every non-overlapping occurrence, scanning from the left
RECURSIVE Replace(_, _, _)
Replace(s, old, new) ==
    IF Len(s) < Len(old) THEN s
    ELSE IF SubSeq(s, 1, Len(old)) = old
      THEN new \o Replace(SubSeq(s, Len(old) + 1, Len(s)), old, new)
      ELSE SubSeq(s, 1, 1) \o Replace(SubSeq(s, 2, Len(s)), old, new)

\* a name the pattern dom_*.json of rollout.glob matches
GlobDom(name) ==
    /\ Len(name) >= Len("dom_") + Len(".json")
    /\ StartsWith(name, "dom_")
    /\ EndsWith(name, ".json")

\* the positions k at which re.search(r"dom_(\d+)\.json$", name) can match
MatchStarts(name) ==
    { k \in 1..Len(name) :
        /\ Len(name) - k + 1 > Len("dom_") + Len(".json")
        /\ SubSeq(name, k, k + 3) = "dom_"
        /\ EndsWith(name, ".json")
        /\ IsDigits(SubSeq(name, k + 4, Len(name) - 5)) }

\* match.group(1) of the leftmost match, or "" when there is no match
MatchIndex(name) ==
    IF MatchStarts(name) = {} THEN ""
    ELSE LET k == CHOOSE k \in MatchStarts(name) : \A m \in MatchStarts(name) : k <= m
         IN  SubSeq(name, k + 4, Len(name) - 5)

\* the characters of the names, in code point order
Alphabet == "./0123456789_abcdefghijklmnopqrstuvwxyz"

CharRank(c) == CHOOSE i \in 1..Len(Alphabet) : SubSeq(Alphabet, i, i) = c

\* s < t as Python compares strings
RECURSIVE StrLess(_, _)
StrLess(s, t) ==
    IF Len(t) = 0 THEN FALSE
    ELSE IF Len(s) = 0 THEN TRUE
    ELSE IF SubSeq(s, 1, 1) = SubSeq(t, 1, 1)
      THEN StrLess(SubSeq(s, 2, Len(s)), SubSeq(t, 2, Len(t)))
      ELSE CharRank(SubSeq(s, 1, 1)) < CharRank(SubSeq(t, 1, 1))

\* sorted(S)
RECURSIVE Sorted(_)
Sorted(S) ==
    IF S = {} THEN <<>>
    ELSE LET m == CHOOSE x \in S : \A y \in S : ~StrLess(y, x)
         IN  <<m>> \o Sorted(S \ {m})

\* None where a path is expected
NoPath == "<None>"

\* Path(p).name and Path(p).parent for a relative path without "." or ".."
\* components
LastSlash(p) ==
    LET at == { i \in 1..Len(p) : SubSeq(p, i, i) = "/" }
    IN  IF at = {} THEN 0 ELSE CHOOSE i \in at : \A k \in at : k <= i

PathName(p) == SubSeq(p, LastSlash(p) + 1, Len(p))

PathParent(p) == IF LastSlash(p) = 0 THEN "." ELSE SubSeq(p, 1, LastSlash(p) - 1)

\* str(parent / name)
PathJoin(parent, name) == IF parent = "." THEN name ELSE parent \o "/" \o name

\* the path render_debug saves to
OutputPath(render_path, output_path) ==
    IF output_path = NoPath
      THEN PathJoin(PathParent(render_path),
                    Replace(PathName(render_path), "render_", "debug_"))
      ELSE output_path

(***************************************************************************)
(* main and run_batch                                                      *)
(***************************************************************************)
DomName(n)    == "dom_" \o n \o ".json"
RenderName(n) == "render_" \o n \o ".png"
DiagName(n)   == "diag_" \o n \o ".json"
DebugName(n)  == "debug_" \o n \o ".png"

\* the files a rollout directory may hold: the three inputs of every
\* iteration, a dom file without a number, and a dom file whose name only ends
\* in dom_<number>.json
DirPool ==
    UNION { {DomName(ToString(i)), RenderName(ToString(i)), DiagName(ToString(i))} :
            i \in 0..MaxIndex }
    \cup {"dom_a.json", "dom_x_dom_0.json"}

NameChunks == {"render_", "r", "_0", "slide", "debug_", "x"}

RECURSIVE Concat(_)
Concat(cs) == IF cs = <<>> THEN "" ELSE Head(cs) \o Concat(Tail(cs))

\* render paths given on the command line: a .png file in the current
\* directory or in a directory whose own name contains "render_"
RenderPaths ==
    { parent \o Concat(cs) \o ".png" :
        parent \in {"", "render_run/"},
        cs \in (SeqsUpTo(NameChunks, MaxChunks) \ {<<>>}) }

SingleArgs ==
    [batch : {""}, dom_json : {"", "dom_0.json"}, render_png : {""} \cup RenderPaths,
     diag : {"", "diag_0.json"}, output : {NoPath, "out.png"}]

BatchArgs ==
    [batch : {"rollout"}, dom_json : {""}, render_png : {""}, diag : {""},
     output : {NoPath}]

InitCli ==
    /\ \/ /\ args \in SingleArgs
          /\ is_dir = FALSE
          /\ fs = {}
       \/ /\ args \in BatchArgs
          /\ \/ is_dir = FALSE /\ fs = {}
             \/ is_dir = TRUE /\ fs \in SUBSET DirPool
    /\ pc = "start"
    /\ dom_files = <<>>
    /\ log = {}
    /\ written = {}
    /\ exit_status = -1
    /\ GeomIdle
    /\ RenderIdle

\* one save of render_debug called on render_path with output_path
Save(render_path, output_path, with_diag) ==
    [src |-> render_path, dst |-> OutputPath(render_path, output_path),
     derived |-> (output_path = NoPath), diag |-> with_diag]

\* main in single-frame mode: load the inputs, render_debug, return
MainSingle ==
    /\ pc = "start"
    /\ args.batch = ""
    /\ args.dom_json # "" /\ args.render_png # ""
    /\ written' = {Save(args.render_png, args.output, args.diag # "")}
    /\ exit_status' = 0
    /\ pc' = "done"
    /\ UNCHANGED <<args, is_dir, fs, dom_files, log>>
    /\ UNCHANGED geomVars
    /\ UNCHANGED renderVars

\* main without --batch and without both positional arguments: parser.error
MainUsageError ==
    /\ pc = "start"
    /\ args.batch = ""
    /\ (args.dom_json = "" \/ args.render_png = "")
    /\ exit_status' = 2
    /\ pc' = "done"
    /\ UNCHANGED <<args, is_dir, fs, dom_files, log, written>>
    /\ UNCHANGED geomVars
    /\ UNCHANGED renderVars

\* sorted(rollout.glob("dom_*.json"))
GlobDomFiles(files) == Sorted({ f \in files : GlobDom(f) })

\* run_batch up to its loop: the directory test, the glob, the empty test
RunBatchStart ==
    /\ pc = "start"
    /\ args.batch # ""
    /\ IF ~is_dir \/ GlobDomFiles(fs) = <<>>
         THEN /\ exit_status' = 1
              /\ pc' = "done"
              /\ UNCHANGED dom_files
         ELSE /\ dom_files' = GlobDomFiles(fs)
              /\ pc' = "loop"
              /\ UNCHANGED exit_status
    /\ UNCHANGED <<args, is_dir, fs, log, written>>
    /\ UNCHANGED geomVars
    /\ UNCHANGED renderVars

\* a mutant: an iteration without diagnostics is skipped too
RenderMissing_or_diag(n, files) ==
    RenderName(n) \notin files \/ DiagName(n) \notin files

\* not render_path.exists()
RenderMissing(n, files) == RenderName(n) \notin files

\* one iteration of "for dom_path in dom_files"
BatchIter ==
    /\ pc = "loop"
    /\ dom_files # <<>>
    /\ LET n == MatchIndex(Head(dom_files))
       IN  IF n = ""
             THEN UNCHANGED <<log, written, fs>>
           ELSE IF RenderMissing(n, fs)
             THEN /\ log' = log \cup {n}
                  /\ UNCHANGED <<written, fs>>
           ELSE LET sv == Save(PathJoin(args.batch, RenderName(n)),
                               PathJoin(args.batch, DebugName(n)),
                               DiagName(n) \in fs)
                IN  /\ written' = written \cup {[sv EXCEPT !.derived = TRUE]}
                    /\ fs' = fs \cup {PathName(sv.dst)}
                    /\ UNCHANGED log
    /\ dom_files' = Tail(dom_files)
    /\ UNCHANGED <<args, is_dir, pc, exit_status>>
    /\ UNCHANGED geomVars
    /\ UNCHANGED renderVars

\* the loop is over: run_batch and main return
BatchReturn ==
    /\ pc = "loop"
    /\ dom_files = <<>>
    /\ exit_status' = 0
    /\ pc' = "done"
    /\ UNCHANGED <<args, is_dir, fs, dom_files, log, written>>
    /\ UNCHANGED geomVars
    /\ UNCHANGED renderVars

NextCli == MainSingle \/ MainUsageError \/ RunBatchStart \/ BatchIter \/ BatchReturn

SpecCli == InitCli /\ [][NextCli]_vars

(***************************************************************************)
(* Properties of main and run_batch                                        *)
(***************************************************************************)
\* the directory as it was when the run started: the run adds only the files
\* it saves
InitialFiles == fs \ { PathName(w.dst) : w \in written }

\* the iteration numbers run_batch discovers
Discovered == { MatchIndex(f) : f \in { g \in InitialFiles : GlobDom(g) } } \ {""}

BatchDone == pc = "done" /\ args.batch # ""

SavedTo(path) == { w \in written : w.dst = path }

\* C1: for every discovered iteration number n, if render_<n>.png is absent
\* the iteration is logged as skipped and no debug_<n>.png is written, and the
\* loop goes on; if it is present debug_<n>.png is written, with the
\* diagnostics when diag_<n>.json exists and without them when it does not.
\* Such a run ends with exit status zero, skipped iterations or not.
C1_BatchSkip ==
    (BatchDone /\ is_dir /\ Discovered # {}) =>
      /\ exit_status = 0
      /\ \A n \in Discovered :
           IF RenderName(n) \notin InitialFiles
             THEN /\ n \in log
                  /\ SavedTo(PathJoin(args.batch, DebugName(n))) = {}
             ELSE /\ n \notin log
                  /\ \E w \in SavedTo(PathJoin(args.batch, DebugName(n))) :
                        /\ w.src = PathJoin(args.batch, RenderName(n))
                        /\ w.diag = (DiagName(n) \in InitialFiles)

\* iteration 0 skipped for want of render_0.png, then iteration 1 rendered
\* without diagnostics, exit status zero
C1_Witness ==
    /\ BatchDone /\ exit_status = 0
    /\ log = {"0"}
    /\ "dom_1.json" \in InitialFiles /\ "diag_1.json" \notin InitialFiles
    /\ \E w \in SavedTo("rollout/debug_1.png") : ~w.diag

\* a name of the form dom_<numeric index>.json
ConventionName(f) ==
    /\ StartsWith(f, "dom_")
    /\ EndsWith(f, ".json")
    /\ Len(f) > Len("dom_") + Len(".json")
    /\ IsDigits(SubSeq(f, Len("dom_") + 1, Len(f) - Len(".json")))

\* C2: run_batch fails fast: if the path is not a directory, or the directory
\* holds no file named dom_<numeric index>.json, the run ends with a non-zero
\* exit status and no frame is rendered.
C2_FailFast ==
    (BatchDone /\ (~is_dir \/ \A f \in InitialFiles : ~ConventionName(f))) =>
      /\ exit_status # 0
      /\ written = {}

\* C10: inputs are read-only: a save to a path that was derived, not given,
\* never goes to the path of the render image that was read.
C10_InputsReadOnly ==
    \A w \in written : w.derived => w.dst # w.src
====
